---- MODULE Spec2Model ----
(***************************************************************************)
(* A model of the printer connectivity layer of nextjs-pwa-webusb-printer: *)
(* the PrinterManager (registry and dispatcher, utils/PrinterManager.ts),  *)
(* the driver objects it creates (connectivity/NetworkConnection.ts and    *)
(* connectivity/APIConnection.ts) and the relay (proxy-server.js).         *)
(*                                                                         *)
(* JavaScript runs one callback at a time: every action below is one       *)
(* synchronous stretch of code, from the call or event that starts it to   *)
(* the next await (or to the return).                                      *)
(***************************************************************************)
EXTENDS Integers, Sequences, FiniteSets, TLC

\* Bounds of the model.
MaxPrinters == 2
MaxConns == 2
MaxJobs == 2
MaxListeners == 1
\* The listeners registered where only listeners and emit calls are looked at.
MaxEmitListeners == 3
MaxPendingDisconnects == 1
MaxClients == 1
MaxRequests == 2
MaxSessions == 2
\* The addresses scanned by a discovery (the program scans 192.168.1.1 to .254).
ProbeCount == 2
\* The longest payload handed to the Bluetooth driver, in bytes.
MaxPayload == 41

\* BluetoothPrinterConnection.print: const chunkSize = 20.
chunkSize == 20

Ids == 1..MaxPrinters
ConnIds == 1..MaxConns
JobIds == 1..MaxJobs

\* Destination hosts: host i is 192.168.1.i; 0 is a missing ip.
Hosts == 1..ProbeCount

\* config.type of the two drivers modelled here (PrinterManager.createConnection).
Types == {"network", "api"}

\* The events whose listeners the manager's operations below call.
Events == {"printerStatusChanged", "printJobAdded", "printJobUpdated"}

\* A listener is a callback of the caller's: one that returns, one that throws.
Listeners == {"observer", "thrower"}

NoConn == [id |-> 0, type |-> "none", pc |-> "none", isConnectedFlag |-> FALSE,
           socket |-> "null", disconnecting |-> 0]

NoWs == [readyState |-> "none", printerIP |-> 0, reason |-> "none"]

\* hist: the values job.status has taken; error: job.error; result: what the
\* print call gave its caller; calls: how often connection.print was invoked.
NoJob == [printerId |-> 0, conn |-> 0, hist |-> << >>, pc |-> "none", driver |-> "none",
          error |-> "none", result |-> "none", calls |-> 0]

\* A USBPrinterConnection as constructed. opened, claimed: the state of the
\* device handle; listed: the numbers of the interfaces of the device's
\* configuration that are not claimed, in listed order; claimable: those that
\* claimInterface accepts; tried: the claimInterface calls made, in order.
NoUsb == [pc |-> "idle", device |-> "null", isConnectedFlag |-> FALSE, opened |-> FALSE,
          claimed |-> {}, listed |-> << >>, claimable |-> {}, result |-> "none",
          tried |-> << >>]

\* A BluetoothPrinterConnection as constructed. gattConnected: device.gatt.connected;
\* data, i, writes, failedAt, presult: the print call in progress or done last.
NoBt == [pc |-> "idle", device |-> "null", characteristic |-> "null",
         isConnectedFlag |-> FALSE, gattConnected |-> FALSE, result |-> "none",
         ppc |-> "idle", data |-> << >>, i |-> 0, writes |-> << >>, failedAt |-> 0,
         presult |-> "none"]

VARIABLES
    printers,         \* this.printers: the ids (keys) of the registered printers
    ptype,            \* printer.config.type of every printer object created so far
    status,           \* printer.status of every printer object created so far
    connections,      \* this.connections: printer id -> driver object (0: no entry)
    activePrinterId,  \* this.activePrinterId (0: null)
    printQueue,       \* this.printQueue: the job objects, in order
    jobs,             \* the job objects created so far
    eventListeners,   \* this.eventListeners: event -> listeners in insertion order
    conn,             \* the driver objects created by createConnection
    wire,             \* payloads sent on a WebSocket, not yet read by the relay
    ws,               \* the relay's WebSocket connections (wss.clients and closed ones)
    requests,         \* the requests the relay has received, in order of arrival
    sessions,         \* the TCP sockets the relay has created, in order of creation
    printResult,      \* how the latest print call left its synchronous part
    usb,              \* a USBPrinterConnection object and the device it opens
    bt,               \* a BluetoothPrinterConnection object and its GATT device
    localStorage,     \* window (is it defined) and the item 'thermalPrinters'
    required,         \* does printer.config hold the fields its type requires
    delivered         \* the latest emit: its event and the listeners it invoked

vars == <<printers, ptype, status, connections, activePrinterId, printQueue, jobs,
          eventListeners, conn, wire, ws, requests, sessions, printResult, usb, bt,
          localStorage, required, delivered>>

----------------------------------------------------------------------------
(* Helpers *)

Last(s) == s[Len(s)]

Range(s) == {s[i] : i \in 1..Len(s)}

\* job.status: the value assigned last.
JobStatus(j) == Last(jobs[j].hist)

\* The ids handed out so far: addPrinter never hands out an id twice.
Created == {i \in Ids : status[i] # "none"}

\* The number of listeners registered, over all events.
RECURSIVE SumLen(_, _)
SumLen(f, S) ==
    IF S = {} THEN 0
    ELSE LET e == CHOOSE x \in S : TRUE IN Len(f[e]) + SumLen(f, S \ {e})

\* emit(event): forEach over the event's listeners; the first that throws ends
\* the loop and the exception leaves emit.
EmitThrows(event) == "thrower" \in Range(eventListeners[event])

----------------------------------------------------------------------------
(* The state after construction (no printers saved). *)

\* The item 'thermalPrinters' of localStorage: the status every saved printer
\* record carries ("none": no record of that id).
NothingSaved == [i \in Ids |-> "none"]

NoEmit == [event |-> "none", invoked |-> << >>]

\* new PrinterManager() with nothing to load, and the world around it.
Constructed ==
    /\ printers = {}
    /\ ptype = [i \in Ids |-> "none"]
    /\ status = [i \in Ids |-> "none"]
    /\ connections = [i \in Ids |-> 0]
    /\ activePrinterId = 0
    /\ printQueue = << >>
    /\ jobs = [j \in JobIds |-> NoJob]
    /\ eventListeners = [e \in Events |-> << >>]
    /\ conn = [c \in ConnIds |-> NoConn]
    /\ wire = {}
    /\ ws = [w \in ConnIds |-> NoWs]
    /\ requests = << >>
    /\ sessions = << >>
    /\ printResult = "none"
    /\ usb = NoUsb
    /\ bt = NoBt
    /\ required = [i \in Ids |-> TRUE]
    /\ delivered = NoEmit

\* The module is imported where window is undefined (the server side of the
\* application): savePrinters and loadSavedPrinters return at once.
Init == Constructed /\ localStorage = [window |-> FALSE, thermalPrinters |-> NothingSaved]

\* The module is imported in the browser, on a first visit.
BrowserInit == Constructed /\ localStorage = [window |-> TRUE, thermalPrinters |-> NothingSaved]

\* savePrinters(): the records of the registered printers, each with the
\* status it has at the time of the call.
SavePrinters(ls, pr, st) ==
    IF ls.window
    THEN [ls EXCEPT !.thermalPrinters = [i \in Ids |-> IF i \in pr THEN st[i] ELSE "none"]]
    ELSE ls

----------------------------------------------------------------------------
(* Event management *)

\* addEventListener with at most max listeners registered in all; a Set keeps
\* a callback it holds where it is.
AddListener(event, callback, max) ==
    /\ SumLen(eventListeners, Events) < max
    /\ callback \notin Range(eventListeners[event])
    /\ eventListeners' = [eventListeners EXCEPT ![event] = Append(@, callback)]
    /\ UNCHANGED <<printers, ptype, status, connections, activePrinterId, printQueue,
                   jobs, conn, wire,
                   ws, requests, sessions, printResult, usb, bt, localStorage, required, delivered>>

AddEventListener(event, callback) == AddListener(event, callback, MaxListeners)

RemoveEventListener(event, callback) ==
    /\ callback \in Range(eventListeners[event])
    /\ eventListeners' = [eventListeners EXCEPT ![event] =
                             SelectSeq(@, LAMBDA l : l # callback)]
    /\ UNCHANGED <<printers, ptype, status, connections, activePrinterId, printQueue,
                   jobs, conn, wire,
                   ws, requests, sessions, printResult, usb, bt, localStorage, required, delivered>>

\* The listeners that forEach invokes: in insertion order, up to the first that
\* throws, whose exception ends the loop.
RECURSIVE Invoked(_)
Invoked(listeners) ==
    IF listeners = << >> THEN << >>
    ELSE IF Head(listeners) = "thrower" THEN <<"thrower">>
    ELSE <<Head(listeners)>> \o Invoked(Tail(listeners))

\* emit(event, data), as called by an operation of the manager.
Emit(event) ==
    /\ delivered' = [event |-> event, invoked |-> Invoked(eventListeners[event])]
    /\ UNCHANGED <<printers, ptype, status, connections, activePrinterId, printQueue,
                   jobs, eventListeners, conn, wire, ws, requests, sessions, printResult,
                   usb, bt, localStorage, required>>

----------------------------------------------------------------------------
(* Printer management *)

\* addPrinter(config); complete: the config holds the fields its type requires
\* (ipAddress for 'network', apiEndpoint for 'api').
AddPrinter(type, complete) ==
    /\ Created # Ids
    /\ LET id == Cardinality(Created) + 1 IN
        /\ printers' = printers \cup {id}
        /\ ptype' = [ptype EXCEPT ![id] = type]
        /\ status' = [status EXCEPT ![id] = "disconnected"]
        /\ required' = [required EXCEPT ![id] = complete]
    /\ localStorage' = SavePrinters(localStorage, printers', status')
    /\ UNCHANGED <<connections, activePrinterId, printQueue, jobs, eventListeners,
                   conn, wire,
                   ws, requests, sessions, printResult, usb, bt, delivered>>

\* What setActivePrinter returns.
SetActivePrinterReturns(id) == id \in printers

\* The events an operation emits, in order, each with its data.
AddPrinterEmits(id) == <<[event |-> "printerAdded", data |-> id]>>

SetActivePrinterEmits(id) ==
    IF id \in printers THEN <<[event |-> "activePrinterChanged", data |-> id]>> ELSE << >>

\* this.activePrinterId after setActivePrinter(id).
ActiveAfterSet(id) == IF id \in printers THEN id ELSE activePrinterId

SetActivePrinter(id) ==
    /\ activePrinterId' = ActiveAfterSet(id)
    /\ UNCHANGED <<printers, ptype, status, connections, printQueue, jobs,
                   eventListeners, conn, wire,
                   ws, requests, sessions, printResult, usb, bt, localStorage, required, delivered>>

----------------------------------------------------------------------------
(* The drivers: NetworkPrinterConnection and APIPrinterConnection *)

\* new NetworkPrinterConnection(..) / new APIPrinterConnection(..), then the
\* synchronous part of connect(): the network driver opens its WebSocket.
NewConnection(id) ==
    [id |-> id, type |-> ptype[id], pc |-> "awaitConnect", isConnectedFlag |-> FALSE,
     socket |-> IF ptype[id] = "network" THEN "connecting" ELSE "null",
     disconnecting |-> 0]

\* connect() succeeding: the WebSocket's onopen, or the status probe answering.
DriverConnected(d) ==
    [d EXCEPT !.pc = "settled", !.isConnectedFlag = TRUE,
              !.socket = IF d.type = "network" THEN "open" ELSE @]

\* connect() failing: the WebSocket's onerror, or the status probe failing.
DriverConnectFailed(d) ==
    [d EXCEPT !.pc = "settled",
              !.socket = IF d.type = "network" THEN "closed" ELSE @]

\* disconnect(): closes and forgets the socket, clears the flag.
DriverDisconnect(d) ==
    [d EXCEPT !.isConnectedFlag = FALSE, !.socket = "null"]

\* isConnected()
IsConnected(c) == conn[c].isConnectedFlag

----------------------------------------------------------------------------
(* Connection management *)

StatusChanged(id, st) == [event |-> "printerStatusChanged", data |-> <<id, st>>]

\* What connectPrinter emits before its await.
ConnectPrinterEmits(id) ==
    IF id \notin printers \/ status[id] = "connected" THEN << >>
    ELSE <<StatusChanged(id, "connecting")>>

\* What connectPrinter emits after connect() resolved: 'connected', and 'error'
\* from the catch when a listener of 'connected' throws.
ConnectResolvedEmits(c) ==
    IF EmitThrows("printerStatusChanged")
    THEN <<StatusChanged(conn[c].id, "connected"), StatusChanged(conn[c].id, "error")>>
    ELSE <<StatusChanged(conn[c].id, "connected")>>

\* What connectPrinter emits after connect() rejected.
ConnectRejectedEmits(c) == <<StatusChanged(conn[c].id, "error")>>

\* What disconnectPrinter emits after its await.
DisconnectFinishedEmits(c) == <<StatusChanged(conn[c].id, "disconnected")>>

FreeConn == CHOOSE c \in ConnIds : conn[c] = NoConn /\ \A b \in ConnIds : b < c => conn[b] # NoConn

\* connectPrinter up to its await.
ConnectPrinter(id) ==
    IF id \notin printers \/ status[id] = "connected"
    THEN UNCHANGED vars                    \* throws 'Printer not found' / returns
    ELSE /\ status' = [status EXCEPT ![id] = "connecting"]
         /\ IF EmitThrows("printerStatusChanged")
            THEN UNCHANGED conn            \* the listener's exception leaves the call
            ELSE /\ \E c \in ConnIds : conn[c] = NoConn
                 /\ conn' = [conn EXCEPT ![FreeConn] = NewConnection(id)]
         /\ UNCHANGED <<printers, ptype, connections, activePrinterId, printQueue, jobs,
                        eventListeners, wire,
                   ws, requests, sessions, printResult, usb, bt, localStorage, required, delivered>>

\* The status connectPrinter leaves after connect() resolved: 'connected', or
\* 'error' when a listener of the 'connected' notification throws into the catch.
StatusAfterConnect == IF EmitThrows("printerStatusChanged") THEN "error" ELSE "connected"

\* connectPrinter after its await: connect() resolved.
ConnectResolved(c) ==
    /\ conn[c].pc = "awaitConnect"
    /\ conn' = [conn EXCEPT ![c] = DriverConnected(@)]
    /\ connections' = [connections EXCEPT ![conn[c].id] = c]
    /\ status' = [status EXCEPT ![conn[c].id] = StatusAfterConnect]
    /\ localStorage' = SavePrinters(localStorage, printers,
                                    [status EXCEPT ![conn[c].id] = "connected"])
    /\ UNCHANGED <<printers, ptype, activePrinterId, printQueue, jobs, eventListeners,
                   wire,
                   ws, requests, sessions, printResult, usb, bt, required, delivered>>

\* connectPrinter after its await: connect() rejected.
ConnectRejected(c) ==
    /\ conn[c].pc = "awaitConnect"
    /\ conn' = [conn EXCEPT ![c] = DriverConnectFailed(@)]
    /\ status' = [status EXCEPT ![conn[c].id] = "error"]
    /\ UNCHANGED <<printers, ptype, connections, activePrinterId, printQueue, jobs,
                   eventListeners, wire,
                   ws, requests, sessions, printResult, usb, bt, localStorage, required, delivered>>

\* A faulty variant of DisconnectStart: the registry is not consulted.
DisconnectStartUnchecked(id, cn) ==
    IF connections[id] # 0
    THEN [cn EXCEPT ![connections[id]] =
             [DriverDisconnect(@) EXCEPT !.disconnecting = @ + 1]]
    ELSE cn

\* disconnectPrinter up to its await, as a change of conn: when the printer is
\* registered and has a connection, the driver's disconnect() runs.
DisconnectStart(id, cn) ==
    IF id \in printers /\ connections[id] # 0
    THEN [cn EXCEPT ![connections[id]] =
             [DriverDisconnect(@) EXCEPT !.disconnecting = @ + 1]]
    ELSE cn

DisconnectPrinter(id) ==
    /\ id \in printers /\ connections[id] # 0
         => conn[connections[id]].disconnecting < MaxPendingDisconnects
    /\ conn' = DisconnectStart(id, conn)
    /\ UNCHANGED <<printers, ptype, status, connections, activePrinterId, printQueue,
                   jobs, eventListeners, wire,
                   ws, requests, sessions, printResult, usb, bt, localStorage, required, delivered>>

\* disconnectPrinter after its await.
DisconnectFinished(c) ==
    /\ conn[c].disconnecting > 0
    /\ conn' = [conn EXCEPT ![c].disconnecting = @ - 1]
    /\ status' = [status EXCEPT ![conn[c].id] = "disconnected"]
    /\ connections' = [connections EXCEPT ![conn[c].id] = 0]
    /\ UNCHANGED <<printers, ptype, activePrinterId, printQueue, jobs, eventListeners,
                   wire,
                   ws, requests, sessions, printResult, usb, bt, localStorage, required, delivered>>

\* The network driver's socket.onclose: the proxy or the link went away.
SocketOnClose(c) ==
    /\ conn[c].socket = "open"
    /\ conn' = [conn EXCEPT ![c].isConnectedFlag = FALSE, ![c].socket = "closed"]
    /\ UNCHANGED <<printers, ptype, status, connections, activePrinterId, printQueue,
                   jobs, eventListeners, wire,
                   ws, requests, sessions, printResult, usb, bt, localStorage, required, delivered>>

\* A faulty variant of ActiveAfterRemove: the active printer is left as it is.
ActiveAfterRemoveKept(id) == activePrinterId

\* this.activePrinterId after removePrinter(id).
ActiveAfterRemove(id) == IF activePrinterId = id THEN 0 ELSE activePrinterId

\* What removePrinter emits itself (the disconnectPrinter it calls emits after
\* its await, see DisconnectFinished).
RemovePrinterEmits(id) ==
    IF id \in printers THEN <<[event |-> "printerRemoved", data |-> id]>> ELSE << >>

RemovePrinter(id) ==
    IF id \notin printers
    THEN UNCHANGED vars
    ELSE /\ status[id] = "connected" /\ connections[id] # 0
              => conn[connections[id]].disconnecting < MaxPendingDisconnects
         /\ conn' = IF status[id] = "connected" THEN DisconnectStart(id, conn) ELSE conn
         /\ printers' = printers \ {id}
         /\ connections' = [connections EXCEPT ![id] = 0]
         /\ activePrinterId' = ActiveAfterRemove(id)
         /\ localStorage' = SavePrinters(localStorage, printers', status)
         /\ UNCHANGED <<ptype, status, printQueue, jobs, eventListeners, wire,
                   ws, requests, sessions, printResult, usb, bt, required, delivered>>

----------------------------------------------------------------------------
(* Persistence *)

\* The ids of the records loadSavedPrinters reads.
LoadedIds(ls) == IF ls.window THEN {i \in Ids : ls.thermalPrinters[i] # "none"} ELSE {}

\* A faulty variant of LoadedStatus: the saved status is trusted.
LoadedStatusAsSaved(saved) == saved

\* printer.status of a loaded record: reset, whatever was saved.
LoadedStatus(saved) == "disconnected"

\* The page is loaded anew: the module is evaluated again and a new
\* PrinterManager is constructed from the saved records. The objects of the
\* page before (drivers, jobs, listeners) are gone with it; the ids handed
\* out before stay used.
Reload ==
    /\ printers' = LoadedIds(localStorage)
    /\ status' = [i \in Ids |-> IF i \in LoadedIds(localStorage)
                                 THEN LoadedStatus(localStorage.thermalPrinters[i])
                                 ELSE status[i]]
    /\ connections' = [i \in Ids |-> 0]
    /\ activePrinterId' = 0
    /\ printQueue' = << >>
    /\ jobs' = [j \in JobIds |-> NoJob]
    /\ eventListeners' = [e \in Events |-> << >>]
    /\ conn' = [c \in ConnIds |-> NoConn]
    /\ printResult' = "none"
    /\ UNCHANGED <<ptype, wire, ws, requests, sessions, usb, bt, localStorage, required,
                   delivered>>

----------------------------------------------------------------------------
(* Printing *)

\* A faulty variant of HistAtSubmit: the job is handed to the driver without
\* being set to 'printing'.
HistAtSubmitNoPrinting ==
    IF EmitThrows("printJobAdded") THEN <<"pending">>
    ELSE IF EmitThrows("printJobUpdated") THEN <<"pending", "failed">>
    ELSE <<"pending">>

\* job.status over the synchronous part of print: 'pending' when the job is
\* pushed, 'printing' in the try block, 'failed' when a listener throws there.
HistAtSubmit ==
    IF EmitThrows("printJobAdded") THEN <<"pending">>
    ELSE IF EmitThrows("printJobUpdated") THEN <<"pending", "printing", "failed">>
    ELSE <<"pending", "printing">>

\* Whether the synchronous part of print reaches connection.print(data).
DriverInvoked == ~EmitThrows("printJobAdded") /\ ~EmitThrows("printJobUpdated")

\* job.error after the synchronous part of print: the catch stores the message
\* of what was thrown, here a listener's exception.
ErrorAtSubmit ==
    IF ~EmitThrows("printJobAdded") /\ EmitThrows("printJobUpdated")
    THEN "listenerError" ELSE "none"

\* What the caller of print has got after the synchronous part: a listener's
\* exception, or a pending promise.
ResultAtSubmit == IF DriverInvoked THEN "pending" ELSE "listenerError"

\* The guard of print: the target resolves, is registered, has a connection,
\* and the connection says it is connected.
PrintTarget(printerId) == IF printerId # 0 THEN printerId ELSE activePrinterId

\* A faulty variant of PrintAccepts: the registry is not consulted.
PrintAcceptsUnregistered(printerId) ==
    LET targetId == PrintTarget(printerId) IN
    /\ targetId # 0
    /\ connections[targetId] # 0
    /\ IsConnected(connections[targetId])

PrintAccepts(printerId) ==
    LET targetId == PrintTarget(printerId) IN
    /\ targetId # 0
    /\ targetId \in printers
    /\ connections[targetId] # 0
    /\ IsConnected(connections[targetId])

\* What print throws when its guard fails.
PrintRejection(printerId) ==
    LET targetId == PrintTarget(printerId) IN
    IF targetId = 0 THEN "No printer selected"
    ELSE IF targetId \notin printers \/ connections[targetId] = 0
    THEN "Printer not found or not connected"
    ELSE "Printer not connected"

FreeJob == CHOOSE j \in JobIds : jobs[j] = NoJob /\ \A k \in JobIds : k < j => jobs[k] # NoJob

\* print up to its await; printerId 0 is the omitted argument.
print(printerId) ==
    IF ~PrintAccepts(printerId)
    THEN /\ printResult' = PrintRejection(printerId)
         /\ UNCHANGED <<printers, ptype, status, connections, activePrinterId, printQueue,
                        jobs, eventListeners, conn, wire, ws, requests, sessions,
                        usb, bt, localStorage, required, delivered>>
    ELSE LET targetId == PrintTarget(printerId)
             c == connections[targetId]
             j == FreeJob
             bySocket == DriverInvoked /\ conn[c].type = "network"
         IN
         /\ \E k \in JobIds : jobs[k] = NoJob
         /\ jobs' = [jobs EXCEPT ![j] =
                [printerId |-> targetId, conn |-> c, hist |-> HistAtSubmit,
                 pc |-> IF DriverInvoked THEN "awaitPrint" ELSE "done",
                 driver |-> IF ~DriverInvoked THEN "none"
                            ELSE IF bySocket THEN "resolved" ELSE "pending",
                 error |-> ErrorAtSubmit, result |-> ResultAtSubmit,
                 calls |-> IF DriverInvoked THEN 1 ELSE 0]]
         /\ printQueue' = Append(printQueue, j)
         /\ wire' = IF bySocket THEN wire \cup {[ws |-> c, job |-> j]} ELSE wire
         /\ printResult' = "accepted"
         /\ UNCHANGED <<printers, ptype, status, connections, activePrinterId,
                        eventListeners, conn,
                   ws, requests, sessions, usb, bt, localStorage, required, delivered>>

\* job.status after connection.print(data) resolved.
HistResolved(hist) ==
    IF EmitThrows("printJobUpdated") THEN hist \o <<"completed", "failed">>
    ELSE Append(hist, "completed")

\* job.status after connection.print(data) rejected.
HistRejected(hist) == Append(hist, "failed")

\* job.error after the await: the catch stores the message of what it caught,
\* the driver's error or the exception of a listener of the 'completed' emit.
ErrorAfter(ok) ==
    IF ~ok THEN "driverError"
    ELSE IF EmitThrows("printJobUpdated") THEN "listenerError" ELSE "none"

\* What the caller of print gets: the job id, or what leaves the catch: the
\* caught error rethrown, unless the emit in the catch throws first.
ResultAfter(ok) ==
    IF EmitThrows("printJobUpdated") THEN "listenerError"
    ELSE IF ok THEN "jobId" ELSE "driverError"

\* The invocations of connection.print after the await: the catch does not retry.
CallsAfter(calls, ok) == calls

\* print after its await; ok: connection.print(data) resolved. The network
\* driver's print has resolved when socket.send returned.
PrintSettled(j, ok) ==
    /\ jobs[j].pc = "awaitPrint"
    /\ jobs[j].driver = "resolved" => ok
    /\ jobs' = [jobs EXCEPT ![j].pc = "done",
                            ![j].driver = IF ok THEN "resolved" ELSE "rejected",
                            ![j].hist = IF ok THEN HistResolved(@) ELSE HistRejected(@),
                            ![j].error = ErrorAfter(ok),
                            ![j].result = ResultAfter(ok),
                            ![j].calls = CallsAfter(@, ok)]
    /\ localStorage' = IF ok /\ ~EmitThrows("printJobUpdated")
                       THEN SavePrinters(localStorage, printers, status)
                       ELSE localStorage
    /\ UNCHANGED <<printers, ptype, status, connections, activePrinterId, printQueue,
                   eventListeners, conn, wire,
                   ws, requests, sessions, printResult, usb, bt, required, delivered>>

ClearPrintQueue ==
    /\ printQueue' = << >>
    /\ UNCHANGED <<printers, ptype, status, connections, activePrinterId, jobs,
                   eventListeners, conn, wire,
                   ws, requests, sessions, printResult, usb, bt, localStorage, required, delivered>>

RemovePrintJob(j) ==
    /\ printQueue' = SelectSeq(printQueue, LAMBDA k : k # j)
    /\ UNCHANGED <<printers, ptype, status, connections, activePrinterId, jobs,
                   eventListeners, conn, wire,
                   ws, requests, sessions, printResult, usb, bt, localStorage, required, delivered>>

----------------------------------------------------------------------------
(* The relay: proxy-server.js *)

managerVars == <<printers, ptype, status, connections, activePrinterId, printQueue,
                 jobs, eventListeners, conn, printResult, usb, bt, localStorage, required, delivered>>

\* wss.on('connection'): a client without an ip is closed and gets no message
\* handler; ip 0 is the missing parameter.
WssConnection(w, ip) ==
    /\ ws[w] = NoWs
    /\ ws' = [ws EXCEPT ![w] =
                 IF ip = 0
                 THEN [readyState |-> "closed", printerIP |-> 0,
                       reason |-> "Printer IP required"]
                 ELSE [readyState |-> "open", printerIP |-> ip, reason |-> "none"]]
    /\ UNCHANGED <<managerVars, wire, requests, sessions>>

\* A client of the relay sends a payload on its WebSocket.
ClientSend(w, j) ==
    /\ ws[w].readyState = "open" \/ (ws[w] # NoWs /\ ws[w].printerIP = 0)
    /\ [ws |-> w, job |-> j] \notin wire
    /\ Len(requests) + Cardinality(wire) < MaxRequests
    /\ wire' = wire \cup {[ws |-> w, job |-> j]}
    /\ UNCHANGED <<managerVars, ws, requests, sessions, printResult, usb, bt, localStorage, required, delivered>>

\* A faulty variant of SessionsAfterWsClose: the sockets opened for the client
\* are destroyed with it.
SessionsAfterWsCloseAborted(ss, w) ==
    [s \in 1..Len(ss) |->
        IF ss[s].kind = "ws" /\ ss[s].ws = w /\ ss[s].st \in {"connecting", "connected", "ended"}
        THEN [ss[s] EXCEPT !.st = "destroyed"]
        ELSE ss[s]]

\* ws.on('close'): the handler logs; the sockets opened for the client's
\* messages are left to themselves.
SessionsAfterWsClose(ss, w) == ss

\* The client closes its WebSocket, or its link drops: ws.readyState leaves OPEN.
WsClientClose(w) ==
    /\ ws[w].readyState = "open"
    /\ ws' = [ws EXCEPT ![w].readyState = "closed"]
    /\ sessions' = SessionsAfterWsClose(sessions, w)
    /\ UNCHANGED <<managerVars, wire, requests>>

\* new net.Socket(), setTimeout, connect(port, ip): one socket, one attempt.
NewSocket(r, kind, w, host, j) ==
    [req |-> r, kind |-> kind, ws |-> w, host |-> host, job |-> j,
     st |-> "connecting", timer |-> "none", written |-> << >>, attempts |-> 1,
     events |-> << >>, out |-> << >>]

\* A faulty variant of SocketsForMessage: a connected socket to the same host is
\* reused for the payload instead of opening a new one.
SocketsForMessagePooled(ss, r, w, j) ==
    LET pool == {s \in 1..Len(ss) : ss[s].host = ws[w].printerIP /\ ss[s].st = "connected"} IN
    IF pool # {}
    THEN LET s == CHOOSE t \in pool : TRUE IN [ss EXCEPT ![s].written = Append(@, j)]
    ELSE Append(ss, NewSocket(r, "ws", w, ws[w].printerIP, j))

\* The sockets after the message handler took payload j of client w as request r.
SocketsForMessage(ss, r, w, j) ==
    Append(ss, NewSocket(r, "ws", w, ws[w].printerIP, j))

\* A faulty variant of HasMessageHandler: the handler is registered before the
\* ip is looked at.
HasMessageHandlerAlways(w) == TRUE

\* ws.on('message') is registered only for a client that gave an ip: the
\* connection handler returns before it otherwise.
HasMessageHandler(w) == ws[w].printerIP # 0

\* A message of a client arrives at the relay: the message handler, if there
\* is one, opens a socket for it.
WsMessage(m) ==
    /\ m \in wire
    /\ wire' = wire \ {m}
    /\ IF ~HasMessageHandler(m.ws)
       THEN UNCHANGED <<requests, sessions>>
       ELSE /\ Len(requests) < MaxRequests /\ Len(sessions) < MaxSessions
            /\ requests' = Append(requests, [kind |-> "ws", host |-> ws[m.ws].printerIP,
                                             job |-> m.job, res |-> "none", found |-> {}])
            /\ sessions' = SocketsForMessage(sessions, Len(requests) + 1, m.ws, m.job)
    /\ UNCHANGED <<managerVars, ws>>

\* The sockets after sendToPrinter(ip, port, data) for request r.
SocketsForPrint(ss, r, ip, j) == Append(ss, NewSocket(r, "print", 0, ip, j))

\* POST /print with body {ip, data}; ip 0 and j 0 are the missing fields.
HandleDirectPrint(ip, j) ==
    /\ Len(requests) < MaxRequests
    /\ IF ip = 0 \/ j = 0
       THEN /\ requests' = Append(requests, [kind |-> "print", host |-> ip, job |-> j,
                                             res |-> "400", found |-> {}])
            /\ UNCHANGED sessions
       ELSE /\ Len(sessions) < MaxSessions
            /\ requests' = Append(requests, [kind |-> "print", host |-> ip, job |-> j,
                                             res |-> "none", found |-> {}])
            /\ sessions' = SocketsForPrint(sessions, Len(requests) + 1, ip, j)
    /\ UNCHANGED <<managerVars, wire, ws>>

\* POST /test with body {ip}: 400 without ip, else one testPrinterConnection.
HandlePrinterTest(ip) ==
    /\ Len(requests) < MaxRequests
    /\ IF ip = 0
       THEN /\ requests' = Append(requests, [kind |-> "test", host |-> ip, job |-> 0,
                                             res |-> "400", found |-> {}])
            /\ UNCHANGED sessions
       ELSE /\ Len(sessions) < MaxSessions
            /\ requests' = Append(requests, [kind |-> "test", host |-> ip, job |-> 0,
                                             res |-> "none", found |-> {}])
            /\ sessions' = Append(sessions, NewSocket(Len(requests) + 1, "probe", 0, ip, 0))
    /\ UNCHANGED <<managerVars, wire, ws>>

\* GET /discover: testPrinterConnection for every address of the scan.
HandleNetworkDiscovery ==
    /\ Len(requests) < MaxRequests
    /\ Len(sessions) + ProbeCount <= MaxSessions
    /\ requests' = Append(requests, [kind |-> "discover", host |-> 0, job |-> 0,
                                     res |-> "none", found |-> {}])
    /\ sessions' = sessions \o
           [i \in 1..ProbeCount |-> NewSocket(Len(requests) + 1, "probe", 0, i, 0)]
    /\ UNCHANGED <<managerVars, wire, ws>>

\* A faulty variant of Report: every resolve and reject of a promise counts, not
\* the first alone.
ReportEvery(d, msg) ==
    IF d.kind = "ws"
    THEN IF ws[d.ws].readyState = "open" THEN Append(d.out, msg) ELSE d.out
    ELSE Append(d.out, msg)

\* What a handler of socket d reports: a message to the WebSocket client if its
\* socket is OPEN; for sendToPrinter and testPrinterConnection the settling of
\* the promise, which only the first resolve or reject does.
Report(d, msg) ==
    IF d.kind = "ws"
    THEN IF ws[d.ws].readyState = "open" THEN Append(d.out, msg) ELSE d.out
    ELSE IF d.out = << >> THEN <<msg>> ELSE d.out

\* The socket's connect callback.
OnConnect(d) ==
    IF d.kind = "probe"
    THEN [d EXCEPT !.st = "destroyed", !.events = Append(@, "connect"),
                   !.out = Report(d, "online")]
    ELSE [d EXCEPT !.st = "connected", !.events = Append(@, "connect"),
                   !.written = Append(@, d.job), !.timer = "pending"]

\* The bytes of payload j, as the client sends them: a WebSocket binary message,
\* or the number array "data" of a POST /print; ESC @, a byte above 127 that
\* differs from payload to payload, and 255.
PayloadOf(j) == <<27, 64, 127 + j, 255>>

\* A faulty variant of ToUint8Array: the elements are taken as signed bytes and
\* clamped at 127.
ToUint8ArrayClamped(data) == [i \in 1..Len(data) |-> IF data[i] > 127 THEN 127 ELSE data[i]]

\* new Uint8Array(data): every element modulo 256.
ToUint8Array(data) == [i \in 1..Len(data) |-> data[i] % 256]

\* What socket.write was given for payload j: the message as received on the
\* WebSocket path, new Uint8Array(data) for sendToPrinter.
WriteArgument(kind, j) == IF kind = "print" THEN ToUint8Array(PayloadOf(j)) ELSE PayloadOf(j)

\* The bytes socket d was given, write after write.
RECURSIVE BytesOf(_, _)
BytesOf(kind, written) ==
    IF written = << >> THEN << >>
    ELSE WriteArgument(kind, Head(written)) \o BytesOf(kind, Tail(written))

BytesWritten(d) == BytesOf(d.kind, d.written)

\* The 1000 ms timer set in the connect callback: socket.end(), and
\* sendToPrinter resolves.
OnEndTimer(d) ==
    [d EXCEPT !.timer = "fired", !.events = Append(@, "timer"),
              !.st = IF @ = "connected" THEN "ended" ELSE @,
              !.out = IF d.kind = "print" THEN Report(d, "sent") ELSE @]

\* socket.on('data'): only the message handler listens.
OnData(d) == [d EXCEPT !.events = Append(@, "data"), !.out = Report(d, "response")]

\* error.message of a socket error: the connect was refused, or the connection
\* was reset.
ErrorMessage(d) == IF d.st = "connecting" THEN "ECONNREFUSED" ELSE "ECONNRESET"

\* socket.on('error'): the handlers pass error.message on; the socket is
\* destroyed by the error.
OnError(d) ==
    [d EXCEPT !.st = "destroyed", !.events = Append(@, "error"),
              !.out = Report(d, ErrorMessage(d))]

\* A faulty variant of OnTimeout: the handler reports but does not destroy.
OnTimeoutNoDestroy(d) ==
    [d EXCEPT !.events = Append(@, "timeout"), !.out = Report(d, "timeout")]

\* socket.on('timeout'): socket.destroy() and the timeout report.
OnTimeout(d) ==
    [d EXCEPT !.st = "destroyed", !.events = Append(@, "timeout"),
              !.out = Report(d, "timeout")]

\* The destination closes the connection: the socket ends and is destroyed.
OnEnd(d) == [d EXCEPT !.st = "destroyed", !.events = Append(@, "end")]

\* socket.on('close'): only the message handler listens.
OnClose(d) ==
    [d EXCEPT !.st = "closed", !.events = Append(@, "close"),
              !.out = IF d.kind = "ws" THEN Report(d, "completed") ELSE @]

\* A faulty variant of SessionsAfter: the handlers share one socket variable,
\* so that destroying a socket destroys every socket still open.
SessionsAfterShared(ss, s, d) ==
    [t \in 1..Len(ss) |->
        IF t = s THEN d
        ELSE IF d.st = "destroyed" /\ ss[t].st \in {"connecting", "connected", "ended"}
        THEN [ss[t] EXCEPT !.st = "destroyed"]
        ELSE ss[t]]

\* The sessions after an event of socket s; no other socket is touched.
SessionsAfter(ss, s, d) == [ss EXCEPT ![s] = d]

\* The first socket of request r.
FirstOf(ss, r) == CHOOSE s \in 1..Len(ss) : ss[s].req = r /\ \A t \in 1..(s - 1) : ss[t].req # r

\* A faulty variant of Respond: the address of result index i is taken as
\* baseIP + i.
RespondShifted(reqs, ss) ==
    [r \in 1..Len(reqs) |->
        IF reqs[r].res # "none" \/ reqs[r].kind = "ws" THEN reqs[r]
        ELSE IF reqs[r].kind = "print"
        THEN LET d == ss[FirstOf(ss, r)] IN
             IF d.out = << >> THEN reqs[r]
             ELSE [reqs[r] EXCEPT !.res = IF d.out = <<"sent">> THEN "200" ELSE "500"]
        ELSE IF reqs[r].kind = "test"
        THEN LET d == ss[FirstOf(ss, r)] IN
             IF d.out = << >> THEN reqs[r]
             ELSE [reqs[r] EXCEPT !.res = "200",
                     !.found = IF Head(d.out) = "online" THEN {d.host} ELSE {}]
        ELSE LET first == FirstOf(ss, r) IN
             IF \E i \in 0..(ProbeCount - 1) : ss[first + i].out = << >> THEN reqs[r]
             ELSE [reqs[r] EXCEPT !.res = "200",
                     !.found = {i : i \in {k \in 0..(ProbeCount - 1) :
                                             ss[first + k].out = <<"online">>}}]]

\* The responses written once the promises have settled: handleDirectPrint
\* after sendToPrinter, handlePrinterTest after testPrinterConnection,
\* handleNetworkDiscovery after Promise.allSettled (the address of result index
\* i is baseIP + (i + 1)).
Respond(reqs, ss) ==
    [r \in 1..Len(reqs) |->
        IF reqs[r].res # "none" \/ reqs[r].kind = "ws" THEN reqs[r]
        ELSE IF reqs[r].kind = "print"
        THEN LET d == ss[FirstOf(ss, r)] IN
             IF d.out = << >> THEN reqs[r]
             ELSE [reqs[r] EXCEPT !.res = IF d.out = <<"sent">> THEN "200" ELSE "500"]
        ELSE IF reqs[r].kind = "test"
        THEN LET d == ss[FirstOf(ss, r)] IN
             IF d.out = << >> THEN reqs[r]
             ELSE [reqs[r] EXCEPT !.res = "200",
                     !.found = IF Head(d.out) = "online" THEN {d.host} ELSE {}]
        ELSE LET first == FirstOf(ss, r) IN
             IF \E i \in 0..(ProbeCount - 1) : ss[first + i].out = << >> THEN reqs[r]
             ELSE [reqs[r] EXCEPT !.res = "200",
                     !.found = {i + 1 : i \in {k \in 0..(ProbeCount - 1) :
                                                 ss[first + k].out = <<"online">>}}]]

SocketEvent(s, d) ==
    /\ sessions' = SessionsAfter(sessions, s, d)
    /\ requests' = Respond(requests, sessions')
    /\ UNCHANGED <<managerVars, wire, ws>>

SocketConnect(s) ==
    /\ s <= Len(sessions) /\ sessions[s].st = "connecting"
    /\ SocketEvent(s, OnConnect(sessions[s]))

EndTimer(s) ==
    /\ s <= Len(sessions) /\ sessions[s].timer = "pending"
    /\ SocketEvent(s, OnEndTimer(sessions[s]))

SocketData(s) ==
    /\ s <= Len(sessions) /\ sessions[s].kind = "ws"
    /\ sessions[s].st \in {"connected", "ended"}
    /\ "data" \notin Range(sessions[s].events)
    /\ SocketEvent(s, OnData(sessions[s]))

SocketError(s) ==
    /\ s <= Len(sessions) /\ sessions[s].st \in {"connecting", "connected", "ended"}
    /\ SocketEvent(s, OnError(sessions[s]))

\* The idle timeout (5000 ms, 10000 ms for sendToPrinter) restarts on activity:
\* on a connected socket it cannot fire before the 1000 ms timer has. It fires
\* once: nothing restarts it on an idle socket.
SocketTimeout(s) ==
    /\ s <= Len(sessions) /\ sessions[s].st \in {"connecting", "ended"}
    /\ "timeout" \notin Range(sessions[s].events)
    /\ SocketEvent(s, OnTimeout(sessions[s]))

SocketEnd(s) ==
    /\ s <= Len(sessions) /\ sessions[s].st \in {"connected", "ended"}
    /\ SocketEvent(s, OnEnd(sessions[s]))

SocketClose(s) ==
    /\ s <= Len(sessions) /\ sessions[s].st = "destroyed"
    /\ SocketEvent(s, OnClose(sessions[s]))

SocketStep ==
    \/ \E s \in 1..MaxSessions : SocketConnect(s)
    \/ \E s \in 1..MaxSessions : EndTimer(s)
    \/ \E s \in 1..MaxSessions : SocketData(s)
    \/ \E s \in 1..MaxSessions : SocketError(s)
    \/ \E s \in 1..MaxSessions : SocketTimeout(s)
    \/ \E s \in 1..MaxSessions : SocketEnd(s)
    \/ \E s \in 1..MaxSessions : SocketClose(s)

----------------------------------------------------------------------------
(* The USB driver: USBPrinterConnection *)

otherVars == <<printers, ptype, status, connections, activePrinterId, printQueue, jobs,
               eventListeners, conn, wire, ws, requests, sessions, printResult,
               localStorage, required, delivered>>

\* The interface numbers connect() tries when none of the listed ones was claimed.
CommonInterfaces == <<0, 1, 2>>

\* The first interface of a list that claimInterface accepts (-1: none).
RECURSIVE FirstClaimable(_, _)
FirstClaimable(list, claimable) ==
    IF list = << >> THEN -1
    ELSE IF Head(list) \in claimable THEN Head(list)
    ELSE FirstClaimable(Tail(list), claimable)

\* A faulty variant of ClaimedInterface: 0, 1, 2 are preferred to the listed ones.
ClaimedInterfaceCommonFirst(u) ==
    IF FirstClaimable(CommonInterfaces, u.claimable) # -1
    THEN FirstClaimable(CommonInterfaces, u.claimable)
    ELSE FirstClaimable(u.listed, u.claimable)

\* The interface connect() ends up with: the listed ones first, then 0, 1, 2.
ClaimedInterface(u) ==
    IF FirstClaimable(u.listed, u.claimable) # -1
    THEN FirstClaimable(u.listed, u.claimable)
    ELSE FirstClaimable(CommonInterfaces, u.claimable)

\* connect() up to requestDevice: the user grants a device or dismisses the chooser.
UsbConnect(granted, listed, claimable) ==
    /\ usb.pc = "idle" /\ usb.result = "none"
    /\ usb' = IF granted
              THEN [usb EXCEPT !.pc = "open", !.listed = listed, !.claimable = claimable]
              ELSE [usb EXCEPT !.pc = "done", !.result = "rejected"]
    /\ UNCHANGED <<otherVars, bt>>

\* await device.open()
UsbOpen(ok) ==
    /\ usb.pc = "open"
    /\ usb' = IF ok THEN [usb EXCEPT !.pc = "claim", !.opened = TRUE]
              ELSE [usb EXCEPT !.pc = "done", !.result = "rejected"]
    /\ UNCHANGED <<otherVars, bt>>

\* The claimInterface calls of one loop: each interface of the list in turn, up
\* to the first that is claimed (break).
RECURSIVE TriedIn(_, _)
TriedIn(list, claimable) ==
    IF list = << >> THEN << >>
    ELSE IF Head(list) \in claimable THEN <<Head(list)>>
    ELSE <<Head(list)>> \o TriedIn(Tail(list), claimable)

\* The claimInterface calls of connect(): the second loop runs only when the
\* first claimed nothing.
Tried(u) ==
    IF FirstClaimable(u.listed, u.claimable) # -1
    THEN TriedIn(u.listed, u.claimable)
    ELSE TriedIn(u.listed, u.claimable) \o TriedIn(CommonInterfaces, u.claimable)

\* The two claim loops and what follows them: this.device is set when an
\* interface was claimed; otherwise the error is rethrown by the catch.
UsbAfterClaim(u) ==
    IF ClaimedInterface(u) # -1
    THEN [u EXCEPT !.pc = "done", !.claimed = {ClaimedInterface(u)}, !.device = "set",
                   !.isConnectedFlag = TRUE, !.result = "resolved", !.tried = Tried(u)]
    ELSE [u EXCEPT !.pc = "done", !.result = "rejected", !.tried = Tried(u)]

UsbClaim ==
    /\ usb.pc = "claim"
    /\ usb' = UsbAfterClaim(usb)
    /\ UNCHANGED <<otherVars, bt>>

\* disconnect(): closes the device this.device holds, if any.
UsbDisconnect ==
    /\ usb.pc = "done"
    /\ usb' = IF usb.device = "set"
              THEN [usb EXCEPT !.opened = FALSE, !.claimed = {}, !.device = "null",
                               !.isConnectedFlag = FALSE]
              ELSE [usb EXCEPT !.isConnectedFlag = FALSE]
    /\ UNCHANGED <<otherVars, bt>>

----------------------------------------------------------------------------
(* The Bluetooth driver: BluetoothPrinterConnection *)

Min(a, b) == IF a < b THEN a ELSE b

\* A payload of n bytes.
Payload(n) == [k \in 1..n |-> k % 256]

\* A faulty variant of Chunk: the end of the slice is not moved with i.
ChunkFixedEnd(data, i) == SubSeq(data, i + 1, Min(chunkSize, Len(data)))

\* data.slice(i, i + chunkSize)
Chunk(data, i) == SubSeq(data, i + 1, Min(i + chunkSize, Len(data)))

\* connect() up to requestDevice: this.device is the device the user grants.
BtConnect(granted) ==
    /\ bt.pc = "idle" /\ bt.result = "none"
    /\ bt' = IF granted THEN [bt EXCEPT !.pc = "gatt", !.device = "set"]
             ELSE [bt EXCEPT !.pc = "done", !.result = "rejected"]
    /\ UNCHANGED <<otherVars, usb>>

\* await this.device.gatt.connect()
BtGattConnect(ok) ==
    /\ bt.pc = "gatt"
    /\ bt' = IF ok THEN [bt EXCEPT !.pc = "service", !.gattConnected = TRUE]
             ELSE [bt EXCEPT !.pc = "done", !.result = "rejected"]
    /\ UNCHANGED <<otherVars, usb>>

\* The lookup of a service: one of the known uuids, else the first service of
\* the device, else 'No compatible printer service found'.
BtService(found) ==
    /\ bt.pc = "service" /\ bt.gattConnected
    /\ bt' = IF found THEN [bt EXCEPT !.pc = "chars"]
             ELSE [bt EXCEPT !.pc = "done", !.result = "rejected"]
    /\ UNCHANGED <<otherVars, usb>>

\* getCharacteristics and the choice of one: the first writable, else the
\* first; kind "none": the service has no characteristic.
BtAfterCharacteristics(b, kind) ==
    IF kind = "none" THEN [b EXCEPT !.pc = "done", !.result = "rejected"]
    ELSE [b EXCEPT !.pc = "done", !.characteristic = kind, !.isConnectedFlag = TRUE,
                   !.result = "resolved"]

BtCharacteristics(kind) ==
    /\ bt.pc = "chars" /\ bt.gattConnected
    /\ bt' = BtAfterCharacteristics(bt, kind)
    /\ UNCHANGED <<otherVars, usb>>

\* The link drops; the 'gattserverdisconnected' listener exists after a
\* connect() that succeeded.
BtGattDisconnected ==
    /\ bt.gattConnected
    /\ bt' = [bt EXCEPT !.gattConnected = FALSE,
                        !.isConnectedFlag = IF bt.result = "resolved" THEN FALSE ELSE @]
    /\ UNCHANGED <<otherVars, usb>>

\* disconnect()
BtDisconnect ==
    /\ bt.pc = "done" /\ bt.ppc # "writing"
    /\ bt' = [bt EXCEPT !.gattConnected = IF bt.device = "set" THEN FALSE ELSE @,
                        !.device = "null", !.characteristic = "null",
                        !.isConnectedFlag = FALSE]
    /\ UNCHANGED <<otherVars, usb>>

\* isConnected(): the flag, and the state of the device's GATT server.
BtIsConnected(b) == b.isConnectedFlag /\ b.device = "set" /\ b.gattConnected

\* print(data) up to its first await, for a payload of n bytes.
BtPrint(n) ==
    /\ bt.pc = "done" /\ bt.ppc # "writing"
    /\ bt' = IF bt.characteristic = "null"
             THEN [bt EXCEPT !.ppc = "done", !.data = Payload(n), !.i = 0,
                             !.writes = << >>, !.failedAt = 0, !.presult = "rejected"]
             ELSE [bt EXCEPT !.ppc = IF n = 0 THEN "done" ELSE "writing",
                             !.data = Payload(n), !.i = 0, !.writes = << >>,
                             !.failedAt = 0,
                             !.presult = IF n = 0 THEN "resolved" ELSE "pending"]
    /\ UNCHANGED <<otherVars, usb>>

\* A faulty variant of AfterChunk: a failed write is skipped and the loop goes on.
AfterChunkContinue(b, ok) ==
    IF b.characteristic = "readonly"
    THEN [b EXCEPT !.ppc = "done", !.presult = "rejected"]
    ELSE [b EXCEPT !.writes = Append(@, Chunk(b.data, b.i)),
                   !.failedAt = IF ok THEN @ ELSE Len(b.writes) + 1,
                   !.i = b.i + chunkSize,
                   !.ppc = IF b.i + chunkSize < Len(b.data) THEN "writing" ELSE "done",
                   !.presult = IF b.i + chunkSize < Len(b.data) THEN "pending"
                               ELSE "resolved"]

\* One pass of the loop: the write of the chunk at i settles. A characteristic
\* that supports no write throws before any write; a write that fails throws
\* into the catch around the loop.
AfterChunk(b, ok) ==
    IF b.characteristic = "readonly"
    THEN [b EXCEPT !.ppc = "done", !.presult = "rejected"]
    ELSE IF ~ok
    THEN [b EXCEPT !.writes = Append(@, Chunk(b.data, b.i)),
                   !.failedAt = Len(b.writes) + 1,
                   !.ppc = "done", !.presult = "rejected"]
    ELSE [b EXCEPT !.writes = Append(@, Chunk(b.data, b.i)),
                   !.i = b.i + chunkSize,
                   !.ppc = IF b.i + chunkSize < Len(b.data) THEN "writing" ELSE "done",
                   !.presult = IF b.i + chunkSize < Len(b.data) THEN "pending"
                               ELSE "resolved"]

\* A write on a dropped link fails.
BtWrite(ok) ==
    /\ bt.ppc = "writing"
    /\ ok => bt.gattConnected
    /\ bt' = AfterChunk(bt, ok)
    /\ UNCHANGED <<otherVars, usb>>

----------------------------------------------------------------------------
(* Specifications *)

\* The registry: printers, connections and the listeners of their status.
Next ==
    \/ AddEventListener("printerStatusChanged", "thrower")
    \/ RemoveEventListener("printerStatusChanged", "thrower")
    \/ \E t \in Types : AddPrinter(t, TRUE)
    \/ \E id \in Ids : SetActivePrinter(id)
    \/ \E id \in Ids : ConnectPrinter(id)
    \/ \E c \in ConnIds : ConnectResolved(c)
    \/ \E c \in ConnIds : ConnectRejected(c)
    \/ \E id \in Ids : DisconnectPrinter(id)
    \/ \E c \in ConnIds : DisconnectFinished(c)
    \/ \E c \in ConnIds : SocketOnClose(c)
    \/ \E id \in Ids : RemovePrinter(id)

Spec == Init /\ [][Next]_vars

\* The dispatcher: the jobs of the printers, each printer connected at most once.
DispatchNext ==
    \/ \E e \in Events : AddEventListener(e, "thrower")
    \/ \E e \in Events : RemoveEventListener(e, "thrower")
    \/ \E t \in Types : AddPrinter(t, TRUE)
    \/ \E id \in Ids : SetActivePrinter(id)
    \/ \E id \in Ids : conn[1] = NoConn /\ ConnectPrinter(id)
    \/ \E c \in ConnIds : ConnectResolved(c)
    \/ \E c \in ConnIds : ConnectRejected(c)
    \/ \E id \in Ids : DisconnectPrinter(id)
    \/ \E c \in ConnIds : DisconnectFinished(c)
    \/ \E c \in ConnIds : SocketOnClose(c)
    \/ \E id \in Ids : RemovePrinter(id)
    \/ \E id \in 0..MaxPrinters : print(id)
    \/ \E j \in JobIds, ok \in BOOLEAN : PrintSettled(j, ok)
    \/ ClearPrintQueue
    \/ \E j \in JobIds : RemovePrintJob(j)

DispatchSpec == Init /\ [][DispatchNext]_vars

\* The relay and its clients; every request carries a payload of its own.
NextPayload == Len(requests) + Cardinality(wire) + 1

RelayNext ==
    \/ \E w \in ConnIds, ip \in {0} \cup Hosts :
          w <= MaxClients /\ (\A v \in 1..(w - 1) : ws[v] # NoWs) /\ WssConnection(w, ip)
    \/ \E w \in ConnIds : ClientSend(w, NextPayload)
    \/ \E w \in ConnIds : WsClientClose(w)
    \/ \E m \in wire : WsMessage(m)
    \/ \E ip \in {0} \cup Hosts, j \in {0, NextPayload} : HandleDirectPrint(ip, j)
    \/ HandleNetworkDiscovery
    \/ SocketStep

RelaySpec == Init /\ [][RelayNext]_vars

\* The timers of a socket fire, and a destroyed socket emits 'close'.
RelayFairness ==
    \A s \in 1..MaxSessions :
        /\ WF_vars(SocketTimeout(s))
        /\ WF_vars(EndTimer(s))
        /\ WF_vars(SocketClose(s))

FairRelaySpec == RelaySpec /\ RelayFairness

\* The HTTP endpoints that await one TCP exchange: POST /print and POST /test.
HttpNext ==
    \/ \E ip \in {0} \cup Hosts, j \in {0, NextPayload} : HandleDirectPrint(ip, j)
    \/ \E ip \in {0} \cup Hosts : HandlePrinterTest(ip)
    \/ \E s \in 1..MaxSessions : SocketConnect(s)
    \/ \E s \in 1..MaxSessions : EndTimer(s)
    \/ \E s \in 1..MaxSessions : SocketError(s)
    \/ \E s \in 1..MaxSessions : SocketTimeout(s)
    \/ \E s \in 1..MaxSessions : SocketEnd(s)
    \/ \E s \in 1..MaxSessions : SocketClose(s)

HttpSpec == Init /\ [][HttpNext]_vars

FairHttpSpec == HttpSpec /\ RelayFairness

\* A network printer printing through the relay.
NetNext ==
    \/ AddPrinter("network", TRUE)
    \/ \E id \in Ids : conn[1] = NoConn /\ ConnectPrinter(id)
    \/ \E c \in ConnIds : ConnectResolved(c)
    \/ \E c \in ConnIds, ip \in Hosts : conn[c].socket = "open" /\ WssConnection(c, ip)
    \/ \E id \in Ids : print(id)
    \/ \E j \in JobIds, ok \in BOOLEAN : PrintSettled(j, ok)
    \/ \E m \in wire : WsMessage(m)
    \/ SocketStep

NetSpec == Init /\ [][NetNext]_vars

\* One job of a network printer on its way through the relay while the callers
\* give up: the client's WebSocket closes, the job is taken off the queue.
CancelNext ==
    \/ AddPrinter("network", TRUE)
    \/ \E id \in Ids : conn[1] = NoConn /\ ConnectPrinter(id)
    \/ \E c \in ConnIds : ConnectResolved(c)
    \/ \E c \in ConnIds, ip \in Hosts : conn[c].socket = "open" /\ WssConnection(c, ip)
    \/ \E id \in Ids : jobs[1] = NoJob /\ print(id)
    \/ \E j \in JobIds, ok \in BOOLEAN : PrintSettled(j, ok)
    \/ \E m \in wire : WsMessage(m)
    \/ SocketStep
    \/ \E w \in ConnIds : WsClientClose(w)
    \/ \E j \in JobIds : j \in Range(printQueue) /\ RemovePrintJob(j)

\* The continuation of print runs once the driver's promise has settled.
JobFairness == \A j \in JobIds : WF_vars(\E ok \in BOOLEAN : PrintSettled(j, ok))

CancelSpec == Init /\ [][CancelNext]_vars

FairCancelSpec == CancelSpec /\ RelayFairness /\ JobFairness

\* The registry in the browser: the printers are saved, and the page reloads.
BrowserNext ==
    \/ AddEventListener("printerStatusChanged", "thrower")
    \/ \E t \in Types, complete \in BOOLEAN : AddPrinter(t, complete)
    \/ \E id \in Ids : SetActivePrinter(id)
    \/ \E id \in Ids : ConnectPrinter(id)
    \/ \E c \in ConnIds : ConnectResolved(c)
    \/ \E c \in ConnIds : ConnectRejected(c)
    \/ \E id \in Ids : DisconnectPrinter(id)
    \/ \E c \in ConnIds : DisconnectFinished(c)
    \/ \E id \in Ids : RemovePrinter(id)
    \/ Reload

BrowserSpec == BrowserInit /\ [][BrowserNext]_vars

\* The listeners of the manager's events and the emit calls.
EmitNext ==
    \/ \E e \in Events, l \in Listeners : AddListener(e, l, MaxEmitListeners)
    \/ \E e \in Events, l \in Listeners : RemoveEventListener(e, l)
    \/ \E e \in Events : Emit(e)

EmitSpec == Init /\ [][EmitNext]_vars

\* The USB and the Bluetooth driver, each object on its own.
DriverNext ==
    \/ \E granted \in BOOLEAN, listed \in {<< >>, <<0>>, <<0, 1>>, <<1, 0>>},
          claimable \in SUBSET {0, 1, 2} : UsbConnect(granted, listed, claimable)
    \/ \E ok \in BOOLEAN : UsbOpen(ok)
    \/ UsbClaim
    \/ UsbDisconnect
    \/ \E granted \in BOOLEAN : BtConnect(granted)
    \/ \E ok \in BOOLEAN : BtGattConnect(ok)
    \/ \E found \in BOOLEAN : BtService(found)
    \/ \E kind \in {"writeWithoutResponse", "write", "readonly", "none"} :
          BtCharacteristics(kind)
    \/ BtGattDisconnected
    \/ BtDisconnect
    \/ \E n \in 0..MaxPayload : BtPrint(n)
    \/ \E ok \in BOOLEAN : BtWrite(ok)

DriverSpec == Init /\ [][DriverNext]_vars

----------------------------------------------------------------------------
(* The claims about the registry (Spec) *)

\* C1: two connectPrinter calls for one printer, the second starting while the
\* first still awaits the driver's connect, create one transport session: no
\* two driver objects of the same printer await connect() at the same time.
C1_OneSessionPerPrinter ==
    \A c \in ConnIds, d \in ConnIds :
        (c # d /\ conn[c].pc = "awaitConnect" /\ conn[d].pc = "awaitConnect")
            => conn[c].id # conn[d].id

LegalTransitions ==
    {<<"none", "disconnected">>, <<"disconnected", "connecting">>,
     <<"connecting", "connected">>, <<"connecting", "error">>,
     <<"connected", "disconnected">>, <<"error", "disconnected">>}

\* C2: a printer's status changes only along disconnected -> connecting ->
\* {connected, error} -> disconnected (and from nothing to disconnected when
\* the printer is added).
C2_StatusTransitions ==
    [][\A id \in Ids : status'[id] # status[id]
                          => <<status[id], status'[id]>> \in LegalTransitions]_vars

\* A driver object that holds a transport: flagged connected, its socket open
\* or being opened, or its connect() still in flight.
Live(d) == d.isConnectedFlag \/ d.socket \in {"connecting", "open"} \/ d.pc = "awaitConnect"

\* C13: removePrinter on a connected printer disconnects before it removes:
\* once the printer is removed, no driver object created for its id holds a
\* transport any more.
C13_RemoveReleasesSessions ==
    [][\A id \in Ids :
          (id \in printers /\ id \notin printers' /\ status[id] = "connected")
             => \A c \in ConnIds : conn[c].id = id => ~Live(conn'[c])]_vars

\* C14: disconnectPrinter for a printer that is disconnected or not registered
\* changes nothing and calls no driver; a driver's disconnect called twice
\* leaves the driver as one call does.
C14_DisconnectIdempotent ==
    /\ \A id \in Ids :
          (id \notin printers \/ status[id] = "disconnected")
             => DisconnectStart(id, conn) = conn
    /\ \A c \in ConnIds :
          DriverDisconnect(DriverDisconnect(conn[c])) = DriverDisconnect(conn[c])

\* C14's case: a registered printer that was connected and has been
\* disconnected, and a removed printer with a connected session stored under
\* its id.
C14_Witness ==
    /\ \E id \in printers, c \in ConnIds :
          /\ status[id] = "disconnected"
          /\ conn[c].id = id /\ conn[c].pc = "settled"
          /\ conn[c].socket = "null" /\ conn[c].disconnecting = 0
    /\ \E id \in Created \ printers :
          connections[id] # 0 /\ IsConnected(connections[id])

----------------------------------------------------------------------------
(* The claims about the dispatcher (DispatchSpec) *)

\* C3: print creates a job only if the status of the resolved printer is
\* 'connected' at the moment of the call.
C3_JobOnlyIfConnected ==
    [][\A j \in JobIds : (jobs[j] = NoJob /\ jobs'[j] # NoJob)
                            => status[jobs'[j].printerId] = "connected"]_vars

\* C4: a job is appended to the queue as it is created, in status pending; the
\* driver's print is invoked only once the job is printing, and the job stays
\* printing while the driver works; completed and failed are reached only
\* through printing; the job is set to completed when the driver's print
\* resolved and to failed when it rejected.
C4_Lifecycle ==
    \A j \in JobIds : jobs[j] # NoJob =>
        LET h == jobs[j].hist IN
        /\ h[1] = "pending"
        /\ jobs[j].driver # "none" => Len(h) >= 2 /\ h[2] = "printing"
        /\ jobs[j].pc = "awaitPrint" => h = <<"pending", "printing">>
        /\ jobs[j].pc = "done" /\ jobs[j].driver = "none" => "completed" \notin Range(h)
        /\ \A k \in 1..Len(h) :
              h[k] \in {"completed", "failed"} => \E i \in 1..(k - 1) : h[i] = "printing"
        /\ jobs[j].pc = "done" /\ jobs[j].driver = "resolved"
              => Len(h) >= 3 /\ h[3] = "completed"
        /\ jobs[j].driver = "rejected" => h = <<"pending", "printing", "failed">>

C4_Appended ==
    \A j \in JobIds : (jobs[j] = NoJob /\ jobs'[j] # NoJob)
                         => printQueue' = Append(printQueue, j)

C4_JobLifecycle == []C4_Lifecycle /\ [][C4_Appended]_vars

\* C4's case: one job completed after its driver resolved, another failed
\* after its driver rejected.
C4_Witness ==
    \E j \in JobIds, k \in JobIds :
        /\ jobs[j].hist = <<"pending", "printing", "completed">>
        /\ jobs[j].driver = "resolved"
        /\ jobs[k].hist = <<"pending", "printing", "failed">>
        /\ jobs[k].driver = "rejected"

\* C5: a job's status never regresses: nothing follows completed or failed,
\* and pending never follows printing.
C5_StatusMonotonic ==
    \A j \in JobIds : \A k \in 1..(Len(jobs[j].hist) - 1) :
        /\ jobs[j].hist[k] \notin {"completed", "failed"}
        /\ ~(jobs[j].hist[k] = "printing" /\ jobs[j].hist[k + 1] = "pending")

\* C6: sends to one printer are serialized: no two jobs of the same printer
\* are in status printing at the same time.
C6_OnePrintingPerPrinter ==
    \A j \in JobIds, k \in JobIds :
        (j # k /\ jobs[j] # NoJob /\ jobs[k] # NoJob
              /\ jobs[j].printerId = jobs[k].printerId)
            => ~(JobStatus(j) = "printing" /\ JobStatus(k) = "printing")

\* C11: when the driver's print fails, the job is failed with the driver's
\* error message as its reason, the error is returned to the caller, and the
\* driver is not invoked again: every job causes at most one invocation of the
\* driver's print, and nothing follows failed.
C11_FailureIsTerminal ==
    \A j \in JobIds :
        /\ jobs[j].calls <= 1
        /\ \A k \in 1..(Len(jobs[j].hist) - 1) : jobs[j].hist[k] # "failed"
        /\ jobs[j].driver = "rejected"
              => /\ JobStatus(j) = "failed"
                 /\ jobs[j].error = "driverError"
                 /\ jobs[j].result = "driverError"
                 /\ jobs[j].calls = 1

\* C12: print for an id that is not registered, or without an id while no
\* active printer is set, fails and leaves the queue, the jobs, the registry,
\* the sessions and the wire as they are.
C12_NoTargetNoEffect ==
    [][\A id \in 0..MaxPrinters :
          ((PrintTarget(id) = 0 \/ PrintTarget(id) \notin printers) /\ print(id))
             => /\ printResult' \in {"No printer selected",
                                     "Printer not found or not connected"}
                /\ UNCHANGED <<printers, ptype, status, connections, activePrinterId,
                               printQueue, jobs, eventListeners, conn, wire>>]_vars

\* C12's case: print was refused for a removed printer although a connected
\* session is stored under its id.
C12_Witness ==
    /\ printResult = "Printer not found or not connected"
    /\ activePrinterId = 0
    /\ \A j \in JobIds : jobs[j] = NoJob
    /\ \E id \in Created \ printers :
          connections[id] # 0 /\ IsConnected(connections[id])

----------------------------------------------------------------------------
(* The claim about the network driver and the relay (NetSpec) *)

RelayFailed(d) == Range(d.out) \cap {"ECONNREFUSED", "ECONNRESET", "timeout"} # {}

\* C7: the network driver surfaces the relay's result: once the relay is done
\* with a job's payload, a failure it reported has failed the job, and a
\* completed job's payload was written to the destination without a failure.
C7_RelayResultSurfaced ==
    \A j \in JobIds, s \in 1..Len(sessions) :
        (jobs[j] # NoJob /\ jobs[j].pc = "done" /\ sessions[s].kind = "ws"
              /\ sessions[s].job = j /\ sessions[s].st = "closed")
            => /\ RelayFailed(sessions[s]) => JobStatus(j) = "failed"
               /\ JobStatus(j) = "completed"
                     => sessions[s].written = <<j>> /\ ~RelayFailed(sessions[s])

\* C34: every job appended to the print queue ends completed or failed,
\* whatever the listeners do: once the print call that created the job is
\* over, nothing sets job.status any more, so the job must be in one of the
\* two by then.
C34_JobsTerminate ==
    \A j \in JobIds :
        jobs[j].pc = "done" => JobStatus(j) \in {"completed", "failed"}

----------------------------------------------------------------------------
(* The claims about the relay (RelaySpec, FairRelaySpec) *)

IsPrefix(a, b) == Len(a) <= Len(b) /\ SubSeq(b, 1, Len(a)) = a

IsClosed(s) == s <= Len(sessions) /\ sessions[s].st = "closed"

C8_TimeoutDestroys ==
    \A s \in 1..Len(sessions) :
        LET d == sessions[s] IN
        "timeout" \in Range(d.events) =>
            /\ d.st \in {"destroyed", "closed"}
            /\ d.kind = "ws" /\ ws[d.ws].readyState = "open" => "timeout" \in Range(d.out)
            /\ d.kind = "print" =>
                  d.out = IF "timer" \in Range(d.events) THEN <<"sent">> ELSE <<"timeout">>
            /\ d.kind = "probe" => d.out = <<"timeout">>

RECURSIVE WsReportsFrom(_, _)
WsReportsFrom(ev, connected) ==
    IF ev = << >> THEN << >>
    ELSE (CASE Head(ev) = "data" -> <<"response">>
            [] Head(ev) = "error" -> <<IF connected THEN "ECONNRESET" ELSE "ECONNREFUSED">>
            [] Head(ev) = "timeout" -> <<"timeout">>
            [] Head(ev) = "close" -> <<"completed">>
            [] OTHER -> << >>) \o WsReportsFrom(Tail(ev), connected \/ Head(ev) = "connect")

WsReports(ev) == WsReportsFrom(ev, FALSE)

\* What a promise settles to: the first settling event of its own socket.
RECURSIVE FirstSettleFrom(_, _, _)
FirstSettleFrom(ev, kind, connected) ==
    IF ev = << >> THEN << >>
    ELSE IF Head(ev) = "error" THEN <<IF connected THEN "ECONNRESET" ELSE "ECONNREFUSED">>
    ELSE IF Head(ev) = "timeout" THEN <<"timeout">>
    ELSE IF Head(ev) = "timer" /\ kind = "print" THEN <<"sent">>
    ELSE IF Head(ev) = "connect" /\ kind = "probe" THEN <<"online">>
    ELSE FirstSettleFrom(Tail(ev), kind, connected \/ Head(ev) = "connect")

FirstSettle(ev, kind) == FirstSettleFrom(ev, kind, FALSE)

ExpectedOut(d) == IF d.kind = "ws" THEN WsReports(d.events) ELSE FirstSettle(d.events, d.kind)

\* C9: the outcome of a request is a function of what its own destination did:
\* the reports of a socket are those of its own events (all of them while the
\* client is open, a prefix after the client closed), a socket is torn down only
\* by an event of its own, and it carries only its own request's payload.
C9_RelayIsolation ==
    \A s \in 1..Len(sessions) :
        LET d == sessions[s] IN
        /\ IF d.kind = "ws" /\ ws[d.ws].readyState # "open"
           THEN IsPrefix(d.out, ExpectedOut(d))
           ELSE d.out = ExpectedOut(d)
        /\ d.st \in {"destroyed", "closed"}
              => \E k \in 1..Len(d.events) :
                    \/ d.events[k] \in {"error", "timeout", "end"}
                    \/ d.events[k] = "connect" /\ d.kind = "probe"
        /\ d.st = "connecting" => d.events = << >>
        /\ Range(d.written) \subseteq {d.job}

\* C9's case: two requests to distinct destinations in flight together; the
\* later one was refused while the earlier one went on and was answered 'sent'.
C9_Witness ==
    /\ Len(sessions) = 2
    /\ sessions[1].host # sessions[2].host
    /\ sessions[2].events = <<"error", "close">>
    /\ sessions[1].kind = "print" /\ sessions[1].out = <<"sent">>
    /\ sessions[1].st = "ended"
    /\ requests[1].res = "200"
    /\ sessions[2].kind = "ws" /\ sessions[2].out = <<"ECONNREFUSED", "completed">>

\* A relay request: a WebSocket message, or a POST /print carrying ip and data.
IsRelayRequest(q) == q.kind = "ws" \/ (q.kind = "print" /\ q.res # "400")

SocketsOf(r) == {s \in 1..Len(sessions) : sessions[s].req = r}

Accepted(r) ==
    {s \in SocketsOf(r) : sessions[s].events # << >> /\ Head(sessions[s].events) = "connect"}

\* C21: the answer to a discovery lists exactly the addresses whose probe
\* accepted a connection before the probe's timeout, each under its own
\* address; it is written when every probe has settled, and none that was
\* refused, errored or timed out is listed.
C21_DiscoveryExact ==
    \A r \in 1..Len(requests) :
        (requests[r].kind = "discover" /\ requests[r].res # "none")
            => /\ requests[r].res = "200"
               /\ \A s \in SocketsOf(r) : sessions[s].events # << >>
               /\ requests[r].found = {sessions[s].host : s \in Accepted(r)}

\* C21's case: a discovery answered with the one address that accepted, the
\* other address having refused or timed out.
C21_Witness ==
    \E r \in 1..Len(requests) :
        /\ requests[r].kind = "discover" /\ requests[r].res = "200"
        /\ Cardinality(requests[r].found) = 1
        /\ \E s \in SocketsOf(r) : Head(sessions[s].events) \in {"error", "timeout"}

\* GET /status: the 'connections' field of the answer.
StatusConnections == Cardinality({w \in ConnIds : ws[w].readyState = "open"})

\* The relay sessions in flight: the sockets opened for a WebSocket message or
\* for a POST /print and not yet closed.
InFlight ==
    {s \in 1..Len(sessions) : sessions[s].kind \in {"ws", "print"} /\ sessions[s].st # "closed"}

\* C22: the count the status endpoint reports is the number of relay TCP
\* sessions in flight at that moment, over the WebSocket path and the HTTP
\* print path together.
C22_StatusCountsSessions == StatusConnections = Cardinality(InFlight)

\* The sockets the relay holds open: created and not yet destroyed.
OpenSessions == {s \in 1..Len(sessions) : sessions[s].st \in {"connecting", "connected", "ended"}}

\* A ceiling the relay would have to keep for the model's sessions to be bounded
\* by admission and not by the number of requests made.
SessionCeiling == MaxSessions - 1

C18_Bounded == Cardinality(OpenSessions) <= SessionCeiling

\* C18: the relay never holds more than a fixed maximum of sessions open; a
\* request arriving at the ceiling opens no socket (it waits in a bounded
\* queue, or is rejected with a backpressure signal).
C18_SessionCeiling ==
    /\ []C18_Bounded
    /\ [][Cardinality(OpenSessions) >= SessionCeiling => Len(sessions') = Len(sessions)]_vars

\* A destination that accepted the connection and the payload and then neither
\* sent anything nor closed: the socket saw 'connect' and no 'data', 'end' or
\* 'error'.
Silent(d) ==
    /\ d.events # << >> /\ Head(d.events) = "connect"
    /\ Range(d.events) \cap {"data", "end", "error"} = {}

\* C19: a job whose destination accepted the payload and stayed silent is
\* reported to the client as successful and never as a timeout, on the
\* WebSocket path and on POST /print alike.
C19_SilenceIsSuccess ==
    \A s \in 1..Len(sessions) :
        LET d == sessions[s] IN
        (d.kind \in {"ws", "print"} /\ Silent(d))
            => /\ "timeout" \notin Range(d.out)
               /\ requests[d.req].res # "500"

\* The three ways a relay job fails at its socket: the connect is refused, the
\* connect times out, the connection is reset while the payload is written
\* (before the 1000 ms timer ends the socket).
FailureKind(d) ==
    IF d.events = << >> THEN "none"
    ELSE IF Head(d.events) = "error" THEN "refused"
    ELSE IF Head(d.events) = "timeout" THEN "connectTimeout"
    ELSE IF Len(d.events) >= 2 /\ d.events[1] = "connect" /\ d.events[2] = "error" THEN "reset"
    ELSE "none"

\* The name under which each kind of failure is to be reported.
KindName(kind) ==
    CASE kind = "refused" -> "ECONNREFUSED"
      [] kind = "connectTimeout" -> "timeout"
      [] kind = "reset" -> "ECONNRESET"

\* C20: a refused connect, a connect timeout and a reset during the write are
\* each reported to the client under their own name, told apart by the
\* reported kind alone, and none is reported as a success.
C20_FailureKindsDistinct ==
    /\ \A k1, k2 \in {"refused", "connectTimeout", "reset"} :
          k1 # k2 => KindName(k1) # KindName(k2)
    /\ \A s \in 1..Len(sessions) :
          LET d == sessions[s] IN
          (d.kind \in {"ws", "print"} /\ FailureKind(d) # "none"
              /\ (d.kind = "ws" => ws[d.ws].readyState = "open"))
             => /\ d.out # << >> /\ Head(d.out) = KindName(FailureKind(d))
                /\ Range(d.out) \cap {"completed", "sent", "response"} = {}
                /\ requests[d.req].res # "200"

\* The terminal outcomes among the reports of socket d: the error messages and
\* the status 'Print job completed'.
TerminalOutcomes(d) ==
    SelectSeq(d.out, LAMBDA m : m \in {"ECONNREFUSED", "ECONNRESET", "timeout", "completed"})

\* C33: for each relayed WebSocket message whose client is open the relay sends
\* exactly one terminal outcome, an error message or 'Print job completed':
\* never two, and one once the TCP socket has closed, whatever order the
\* socket's events come in.
C33_OneTerminalOutcome ==
    \A s \in 1..Len(sessions) :
        LET d == sessions[s] IN
        (d.kind = "ws" /\ ws[d.ws].readyState = "open")
            => /\ Len(TerminalOutcomes(d)) <= 1
               /\ d.st = "closed" => Len(TerminalOutcomes(d)) = 1

\* The clients that connected without an ip.
WithoutIp == {w \in ConnIds : ws[w] # NoWs /\ ws[w].printerIP = 0}

\* The state part of C40: closed with the reason, and no socket of its own.
C40_ClosedNoSocket ==
    \A w \in WithoutIp :
        /\ ws[w].readyState = "closed" /\ ws[w].reason = "Printer IP required"
        /\ \A s \in 1..Len(sessions) : ~(sessions[s].kind = "ws" /\ sessions[s].ws = w)

\* C40: a WebSocket client that connects without an ip is closed with reason
\* 'Printer IP required', no socket of the relay belongs to it, and a message
\* of it that arrives opens no TCP connection and starts no request.
C40_NoIpNoConnection ==
    /\ [](C40_ClosedNoSocket)
    /\ [][\A m \in wire : (WsMessage(m) /\ m.ws \in WithoutIp)
              => sessions' = sessions /\ requests' = requests]_vars

\* C40's case: a client without an ip was closed and a message of it is on its
\* way to the relay, which has opened no connection.
C40_Witness ==
    \E m \in wire :
        /\ m.ws \in WithoutIp
        /\ ws[m.ws].reason = "Printer IP required"
        /\ sessions = << >>

\* C39: the relay forwards the payload unmodified: nothing is written before
\* the TCP connection is established, and from then on the bytes given to the
\* destination socket are the request's payload, whole, in order and once.
C39_PayloadForwarded ==
    \A s \in 1..Len(sessions) :
        LET d == sessions[s] IN
        d.kind \in {"ws", "print"}
            => IF "connect" \in Range(d.events)
               THEN /\ BytesWritten(d) = PayloadOf(requests[d.req].job)
                    /\ Len(d.written) = 1
               ELSE d.written = << >>

\* C39's case: a WebSocket message and a POST /print, with different payloads,
\* were both written to their destinations after their connects; the first
\* socket has ended, the second is still connected.
C39_Witness ==
    /\ Len(sessions) = 2
    /\ {sessions[1].kind, sessions[2].kind} = {"ws", "print"}
    /\ \A s \in 1..2 : "connect" \in Range(sessions[s].events) /\ BytesWritten(sessions[s]) # << >>
    /\ BytesWritten(sessions[1]) # BytesWritten(sessions[2])
    /\ sessions[1].st = "ended" /\ sessions[2].st = "connected"

----------------------------------------------------------------------------
(* The claims about the HTTP endpoints of the relay (FairHttpSpec) *)

\* The requests that POST /print and POST /test have received.
HttpRequests == {r \in 1..Len(requests) : requests[r].kind \in {"print", "test"}}

\* The state part of C36: a promise has settled at most once, and a response
\* is written exactly when there is nothing to wait for or the promise has
\* settled, with the status of the request's outcome.
C36_SettledOnce ==
    \A r \in HttpRequests :
        IF SocketsOf(r) = {}
        THEN requests[r].res = "400"
        ELSE \A s \in SocketsOf(r) :
                /\ Len(sessions[s].out) <= 1
                /\ requests[r].res = "none" <=> sessions[s].out = << >>
                /\ requests[r].res \in {"none", "200", "500"}
                /\ sessions[s].out = <<"sent">> => requests[r].res = "200"
                /\ sessions[s].out # << >> /\ sessions[s].kind = "probe"
                      => requests[r].res = "200"

\* C36: every POST /print and POST /test gets exactly one response: the
\* promise behind the TCP exchange settles once however connect, error,
\* timeout and the 1000 ms timer race, a response once written is not written
\* again, and every request is answered in the end.
C36_OneResponse ==
    /\ [](C36_SettledOnce)
    /\ [][\A r \in HttpRequests :
             /\ requests[r].res # "none" => requests'[r] = requests[r]
             /\ \A s \in SocketsOf(r) :
                   sessions[s].out # << >> => sessions'[s].out = sessions[s].out]_vars
    /\ \A r \in 1..MaxRequests :
          (r \in HttpRequests) ~> (r \in HttpRequests /\ requests[r].res # "none")

\* C36's case: a POST /print whose connection was reset after the connect, and
\* whose 1000 ms timer fired afterwards, answered 500; a POST /test whose probe
\* timed out, answered 200 with nothing online.
C36_Witness ==
    /\ Len(requests) = 2 /\ Len(sessions) = 2
    /\ requests[1].kind = "print" /\ requests[1].res = "500"
    /\ sessions[1].events = <<"connect", "error", "timer">>
    /\ sessions[1].out = <<"ECONNRESET">>
    /\ requests[2].kind = "test" /\ requests[2].res = "200" /\ requests[2].found = {}
    /\ sessions[2].events = <<"timeout">> /\ sessions[2].out = <<"timeout">>

----------------------------------------------------------------------------
(* The claims about the USB and the Bluetooth driver (DriverSpec) *)

\* The candidates of connect(), in the order it probes them.
Candidates(u) == u.listed \o CommonInterfaces

\* C29: USB connect probes the listed unclaimed interfaces in listed order,
\* then 0, 1, 2, and commits to the first whose claim succeeds: while the
\* driver holds the device exactly one interface is claimed, it is the one
\* tried last, every candidate before it was tried and refused and none after
\* it was tried; when no claim succeeds every candidate was tried, connect
\* fails and the driver is not connected.
C29_FirstClaimWins ==
    /\ IsPrefix(usb.tried, Candidates(usb))
    /\ \A k \in 1..(Len(usb.tried) - 1) : usb.tried[k] \notin usb.claimable
    /\ usb.device = "set"
          => /\ usb.result = "resolved" /\ usb.isConnectedFlag
             /\ usb.tried # << >> /\ usb.claimed = {Last(usb.tried)}
             /\ Last(usb.tried) \in usb.claimable
    /\ (usb.pc = "done" /\ usb.result = "rejected" /\ usb.opened)
          => /\ usb.tried = Candidates(usb)
             /\ usb.claimed = {} /\ ~usb.isConnectedFlag /\ usb.device = "null"

\* C29's case: none of the listed interfaces could be claimed; connect went on
\* to 0, 1, 2 and holds interface 2.
C29_Witness ==
    /\ usb.listed = <<0, 1>> /\ usb.tried = <<0, 1, 0, 1, 2>>
    /\ usb.claimed = {2} /\ usb.result = "resolved" /\ usb.isConnectedFlag

\* C38: print on a driver that is not connected (never connected, connect
\* failed, disconnected, or the link dropped so that isConnected() is false)
\* fails at once as not connected, with no transport I/O: no write is started.
C38_NotConnectedNoIO ==
    [][\A n \in 0..MaxPayload :
          (BtPrint(n) /\ ~BtIsConnected(bt))
             => bt'.presult = "rejected" /\ bt'.ppc = "done" /\ bt'.writes = << >>]_vars

\* C15: after a connect that failed, the driver holds nothing: the USB device
\* is not open and no interface is claimed, the GATT server is not connected.
C15_FailedConnectReleases ==
    /\ usb.result = "rejected" => ~usb.opened /\ usb.claimed = {}
    /\ bt.result = "rejected" => ~bt.gattConnected

CeilDiv(a, b) == (a + b - 1) \div b

RECURSIVE Concat(_)
Concat(chunks) == IF chunks = << >> THEN << >> ELSE Head(chunks) \o Concat(Tail(chunks))

\* C16: a Bluetooth print that resolved has issued ceil(S / chunkSize) writes,
\* each of 1 to chunkSize bytes, which concatenate to the payload; while it is
\* writing, the chunks written are the payload up to i, in order.
C16_ChunkedSend ==
    /\ \A k \in 1..Len(bt.writes) : Len(bt.writes[k]) \in 1..chunkSize
    /\ bt.presult = "resolved"
          => /\ Len(bt.writes) = CeilDiv(Len(bt.data), chunkSize)
             /\ Concat(bt.writes) = bt.data
    /\ bt.presult = "pending"
          => /\ Concat(bt.writes) = SubSeq(bt.data, 1, bt.i)
             /\ Len(bt.writes) * chunkSize = bt.i
             /\ bt.i < Len(bt.data)

\* C16's case: a payload of two full chunks and one byte, written in three writes.
C16_Witness ==
    /\ bt.presult = "resolved"
    /\ Len(bt.data) = 2 * chunkSize + 1
    /\ Len(bt.writes) = 3 /\ Len(bt.writes[3]) = 1

\* C17: when the write of a chunk fails the print is rejected and over, and the
\* failed write is the last one issued; a print that resolved had no failed write.
C17_ChunkFailureIsTerminal ==
    /\ bt.failedAt # 0
          => /\ bt.presult = "rejected" /\ bt.ppc = "done"
             /\ Len(bt.writes) = bt.failedAt
    /\ bt.presult \in {"resolved", "pending"} => bt.failedAt = 0

\* C17's case: the first chunk of a payload of three chunks was written, the
\* second failed, the third was never written.
C17_Witness ==
    /\ bt.failedAt = 2 /\ bt.presult = "rejected"
    /\ Len(bt.data) > 2 * chunkSize
    /\ Len(bt.writes) = 2

----------------------------------------------------------------------------
(* The claims about notifications and leaks (Spec) *)

\* A step is notified by the emissions of the operation that took it: a change
\* of the identity set by printerAdded or printerRemoved, a change of a
\* printer's status by printerStatusChanged with the new status, a change of
\* the active identity by activePrinterChanged.
Notified(emits) ==
    /\ printers' # printers
          => \E k \in 1..Len(emits) : emits[k].event \in {"printerAdded", "printerRemoved"}
    /\ \A i \in Ids :
          (status[i] # "none" /\ status'[i] # status[i])
             => \E k \in 1..Len(emits) :
                   emits[k].event = "printerStatusChanged" /\ emits[k].data = <<i, status'[i]>>
    /\ activePrinterId' # activePrinterId
          => \E k \in 1..Len(emits) : emits[k].event = "activePrinterChanged"

\* C25: every change of registry state is notified: of the identity set by
\* printerAdded or printerRemoved, of a printer's connection state by
\* printerStatusChanged with the new status, of the active identity (its
\* reset to none included) by activePrinterChanged.
C25_ChangesNotified ==
    [][/\ \A t \in Types : AddPrinter(t, TRUE) => Notified(AddPrinterEmits(Cardinality(Created) + 1))
       /\ \A id \in Ids :
             /\ SetActivePrinter(id) => Notified(SetActivePrinterEmits(id))
             /\ ConnectPrinter(id) => Notified(ConnectPrinterEmits(id))
             /\ RemovePrinter(id) => Notified(RemovePrinterEmits(id))
       /\ \A c \in ConnIds :
             /\ ConnectResolved(c) => Notified(ConnectResolvedEmits(c))
             /\ ConnectRejected(c) => Notified(ConnectRejectedEmits(c))
             /\ DisconnectFinished(c) => Notified(DisconnectFinishedEmits(c))]_vars

\* C30: no session leaks: a driver object whose connect succeeded and on which
\* disconnect has not been invoked is the one stored in the connections map
\* under its id, and that id is a registered printer's.
C30_NoSessionLeak ==
    \A c \in ConnIds :
        (conn[c].pc = "settled" /\ conn[c].isConnectedFlag)
            => conn[c].id \in printers /\ connections[conn[c].id] = c

\* C31: a registered printer's status is connected if and only if the
\* connections map holds a session for its id, and the map holds no entry for
\* an id that is not registered.
C31_StatusMatchesMap ==
    /\ \A id \in printers : status[id] = "connected" <=> connections[id] # 0
    /\ \A id \in Ids \ printers : connections[id] = 0

\* C32: status connected reflects a usable session: whenever a printer's
\* status is connected (and no disconnect of it is under way) the stored
\* driver's isConnected() is true, so that a dropped transport takes the
\* status out of connected.
C32_ConnectedIsUsable ==
    \A id \in printers :
        (status[id] = "connected" /\ connections[id] # 0
            /\ conn[connections[id]].disconnecting = 0)
           => IsConnected(connections[id])

\* C35: a printer does not stay in status connecting: while the status is
\* connecting, a connect() of a driver created for the printer is in flight,
\* whose settling sets the status to connected or error.
C35_ConnectingIsInFlight ==
    \A id \in printers :
        status[id] = "connecting"
            => \E c \in ConnIds : conn[c].id = id /\ conn[c].pc = "awaitConnect"

\* C37: after printerRemoved for an id, the removed printer's record is not
\* modified and no printerStatusChanged for that id is emitted, also when the
\* printer was connected or connecting when it was removed.
C37_RemovedIsSilent ==
    [][/\ \A id \in Ids : (id \notin printers /\ status[id] # "none") => status'[id] = status[id]
       /\ \A c \in ConnIds :
             conn[c].id \notin printers
                => /\ ConnectResolved(c) => ConnectResolvedEmits(c) = << >>
                   /\ ConnectRejected(c) => ConnectRejectedEmits(c) = << >>
                   /\ DisconnectFinished(c) => DisconnectFinishedEmits(c) = << >>]_vars

----------------------------------------------------------------------------
(* The claims about the registry in the browser (BrowserSpec) *)

C24_ActiveRegistered == activePrinterId = 0 \/ activePrinterId \in printers

C24_UnregisteredRefused ==
    \A id \in Ids :
        id \notin printers
            => /\ ~SetActivePrinterReturns(id)
               /\ ActiveAfterSet(id) = activePrinterId
               /\ SetActivePrinterEmits(id) = << >>

\* C24: there is at most one active printer and it is registered:
\* activePrinterId is null or the id of a printer in the registry, after any
\* sequence of addPrinter, setActivePrinter, removePrinter and reload;
\* setActivePrinter with an unregistered id returns false, leaves the active
\* printer as it is and emits nothing.
C24_OneActiveRegistered == C24_ActiveRegistered /\ C24_UnregisteredRefused

\* C24's case: a printer is active while the id of a removed printer is
\* unregistered.
C24_Witness ==
    /\ activePrinterId \in printers
    /\ \E id \in Created : id \notin printers /\ localStorage.thermalPrinters[id] = "none"

\* C27: after a reload every saved printer is loaded with status disconnected,
\* whatever status was saved, and no session exists: the connections map is
\* empty and no driver object holds a transport.
C27_ReloadResets ==
    [][Reload => /\ printers' = LoadedIds(localStorage)
                 /\ \A i \in printers' : status'[i] = "disconnected"
                 /\ \A i \in Ids : connections'[i] = 0
                 /\ \A c \in ConnIds : ~Live(conn'[c])]_vars

\* C27's case: after a reload, one printer saved as connected and one saved as
\* connecting or error, both loaded as disconnected.
C27_Witness ==
    /\ \A c \in ConnIds : conn[c] = NoConn
    /\ \E i \in printers, k \in printers :
          /\ localStorage.thermalPrinters[i] = "connected"
          /\ localStorage.thermalPrinters[k] \in {"connecting", "error"}
          /\ status[i] = "disconnected" /\ status[k] = "disconnected"

C28_Validated == \A i \in printers : required[i]

\* C28: addPrinter rejects a config that lacks the fields its type requires
\* and registers nothing for it; every accepted registration gets a new id
\* and starts disconnected.
C28_RequiredFieldsValidated ==
    /\ []C28_Validated
    /\ [][\A i \in Ids : (i \in printers' /\ i \notin printers /\ ~Reload)
                             => status[i] = "none" /\ status'[i] = "disconnected"]_vars

----------------------------------------------------------------------------
(* The claims about abandoned calls (FairCancelSpec) *)

\* A session of a client that has closed its WebSocket.
Orphaned(s) ==
    /\ s <= Len(sessions) /\ sessions[s].kind = "ws"
    /\ ws[sessions[s].ws].readyState = "closed"

\* The in-flight write is not aborted: once the destination has accepted, the
\* payload is written, whether or not the client is still there.
C23_WriteGoesOn ==
    \A s \in 1..Len(sessions) :
        (sessions[s].kind = "ws" /\ "connect" \in Range(sessions[s].events))
            => sessions[s].written = <<sessions[s].job>>

\* A job that left the queue is still a job of the dispatcher: its status is
\* not touched by the removal.
C23_JobGoesOn ==
    [][\A j \in JobIds : RemovePrintJob(j) => jobs'[j] = jobs[j]]_vars

----------------------------------------------------------------------------
(* The claims about the listeners (EmitSpec) *)

\* C26: emit invokes every listener registered for the event at that time, in
\* the order the listeners were added, and no other (none that was removed).
C26_AllListenersInOrder ==
    [][\A e \in Events : Emit(e) => delivered'.invoked = eventListeners[e]]_vars

====
